---- MODULE Spec2Model ----
(***************************************************************************)
(* The CSS-extraction pass of the babel plugin: the entry visitor          *)
(* (pre, ImportDeclaration, TaggedTemplateExpression, CallExpression,      *)
(* JSXOpeningElement, Program.exit), the sheet hoister (hoistSheet) and    *)
(* the emitters (buildCompiledComponent, buildStyledComponent and their    *)
(* templates).                                                             *)
(*                                                                         *)
(* Two specifications share the operators that model the code:             *)
(*   Spec      a process compiling up to MaxModules modules one after the  *)
(*             other; the traversal reaches the top-level statements of a  *)
(*             module in source order, one handler call per step;          *)
(*   SpecNode  one handler applied to one node drawn from a wide set of    *)
(*             nodes (attributes, style objects, variables, specifiers).   *)
(***************************************************************************)
EXTENDS Integers, Sequences, FiniteSets, TLC

VARIABLES
  phase,            \* "idle" | "visiting" | "done" (Spec); "node" | "emitted" (SpecNode)
  modNo,            \* number of the module being compiled (0 before the first)
  orig,             \* the module body as parsed, up to the statement the traversal has reached
  body,             \* program.body, as the pass has rewritten it so far
  sheets,           \* state.sheets: sheet string -> identifier
  uids,             \* how many uids generateUidIdentifier('') has handed out in this program
  compiledImports,  \* state.compiledImports
  opts,             \* state.opts
  earlier,          \* history: the sheet strings hoisted in the modules compiled before this one
  site,             \* SpecNode: the node the handler is applied to
  result            \* SpecNode: what the handler left in its place

vars == <<phase, modNo, orig, body, sheets, uids, compiledImports, opts, earlier, site, result>>

(***************************************************************************)
(* Bounds.                                                                 *)
(***************************************************************************)
MaxModules == 2
MaxStmts == 3
MaxSpecifiers == 3
MaxVars == 2
MaxStyleProps == 2

(***************************************************************************)
(* Sequence helpers.                                                       *)
(***************************************************************************)
SeqsUpTo(S, n) == UNION {[1..k -> S] : k \in 0..n}

Min(a, b) == IF a <= b THEN a ELSE b

\* The least member of a non-empty set of indices, 0 for the empty set
\* (what Array.prototype.find / filter(...)[0] come to on the indices that pass).
FirstOf(I) == IF I = {} THEN 0 ELSE CHOOSE i \in I : \A j \in I : i <= j

\* s with x placed so that it becomes element i (1-based), the rest shifted right.
InsertAt(s, i, x) == SubSeq(s, 1, i - 1) \o <<x>> \o SubSeq(s, i, Len(s))

RemoveAt(s, i) == SubSeq(s, 1, i - 1) \o SubSeq(s, i + 1, Len(s))

\* Array.prototype.splice(start, 0, x) with a 0-based start: a start past the end appends.
Splice0(s, start, x) == InsertAt(s, Min(start, Len(s)) + 1, x)

Range(s) == {s[i] : i \in 1..Len(s)}

EmptyMap == [x \in {} |-> x]

(***************************************************************************)
(* AST nodes.                                                              *)
(***************************************************************************)
Identifier(name) == [type |-> "Identifier", name |-> name]
StringLiteral(value) == [type |-> "StringLiteral", value |-> value]
\* null in the AST: the value of an attribute written without one, a hole of an array
NullValue == [type |-> "null"]
JSXEmptyExpression == [type |-> "JSXEmptyExpression"]
JSXExpressionContainer(e) == [type |-> "JSXExpressionContainer", expression |-> e]
JSXAttribute(name, value) == [type |-> "JSXAttribute", name |-> name, value |-> value]
JSXSpreadAttribute(e) == [type |-> "JSXSpreadAttribute", argument |-> e]
ObjectExpression(props) == [type |-> "ObjectExpression", properties |-> props]
ObjectProperty(key, value) == [type |-> "ObjectProperty", key |-> key, value |-> value]
ObjectMethod(key) == [type |-> "ObjectMethod", key |-> key]
SpreadElement(e) == [type |-> "SpreadElement", argument |-> e]
ArrayExpression(elems) == [type |-> "ArrayExpression", elements |-> elems]
CallExpression(callee, args) == [type |-> "CallExpression", callee |-> callee, arguments |-> args]
MemberExpression(object, property) ==
  [type |-> "MemberExpression", object |-> Identifier(object), property |-> Identifier(property)]
ArrowFunctionExpression(param, b) ==
  [type |-> "ArrowFunctionExpression", params |-> <<Identifier(param)>>, body |-> b]
BinaryExpression(l, r) == [type |-> "BinaryExpression", operator |-> "+", left |-> l, right |-> r]

ImportSpecifier(imported, local) ==
  [type |-> "ImportSpecifier", imported |-> imported, local |-> local]
ImportDefaultSpecifier(local) ==
  [type |-> "ImportDefaultSpecifier", imported |-> "default", local |-> local]
ImportNamespaceSpecifier(local) ==
  [type |-> "ImportNamespaceSpecifier", imported |-> "*", local |-> local]
ImportDeclaration(source, specifiers) ==
  [type |-> "ImportDeclaration", source |-> source, specifiers |-> specifiers]

\* const <id> = "<sheet>", as hoistSheet builds it
VariableDeclaration(id, init) == [type |-> "VariableDeclaration", id |-> id, init |-> init]

\* A top-level statement that is no import: it may declare one program-scope binding
\* (declares, "" when none) and holds one node the visitor reacts to.
Statement(declares, node) == [type |-> "Statement", declares |-> declares, node |-> node]

\* importSpecifier(name) of utils/ast-builders
importSpecifier(name) == ImportSpecifier(name, name)

(***************************************************************************)
(* External collaborators of the emitters.                                 *)
(***************************************************************************)
\* The declarations a CSSOutput's css text is made of in this model, and the atomic
\* class name and rule string transformCss gives each (the values of the plugin's test).
Decls == {"font-size:12px", "font-size:24px"}

ClassNameOf(decl) == IF decl = "font-size:12px" THEN "_1wyb1fwx" ELSE "_1wyb1tcg"

SheetOf(decl) ==
  IF decl = "font-size:12px" THEN "._1wyb1fwx{font-size:12px}" ELSE "._1wyb1tcg{font-size:24px}"

SheetStrings == {SheetOf(d) : d \in Decls}

\* unique(arr, getter) of @compiled/utils, with getter = item => item.name:
\* the items whose name no earlier item has, in order.
unique(items) ==
  LET keep(i) == \A j \in 1..(i - 1) : items[j].name # items[i].name
      Idx == {i \in 1..Len(items) : keep(i)}
      RECURSIVE Pick(_)
      Pick(i) == IF i > Len(items) THEN <<>>
                 ELSE (IF i \in Idx THEN <<items[i]>> ELSE <<>>) \o Pick(i + 1)
  IN Pick(1)

\* transformCss(css) of @compiled/css: one sheet per declaration, in order, and the
\* distinct class names in source order.
TransformCss(css) ==
  [sheets |-> [i \in 1..Len(css) |-> SheetOf(css[i])],
   classNames |-> LET named == [i \in 1..Len(css) |-> [name |-> ClassNameOf(css[i])]]
                      u == unique(named)
                  IN [i \in 1..Len(u) |-> u[i].name]]

\* isPropValid of @emotion/is-prop-valid, on the prop names of this model.
ValidHtmlProps == {"href", "title"}
IsPropValid(name) == name \in ValidHtmlProps

\* pickFunctionBody(node) of utils/ast: the body of an arrow function with an expression body.
PickFunctionBody(node) == node.body

(***************************************************************************)
(* The hoister.  meta stands for meta.state and the program meta.parentPath *)
(* lives in: [body, sheets, uids, mod, nonce].                             *)
(***************************************************************************)
IsImport(stmt) == stmt.type = "ImportDeclaration"

\* The identifier scope.generateUidIdentifier('') returns: _, _2, _3, ... in the order
\* asked for. mod tells the identifier nodes of different programs apart.
GenerateUidIdentifier(meta) == [type |-> "Identifier", mod |-> meta.mod, n |-> meta.uids + 1]

\* parent.filter((path) => !path.isImportDeclaration())[0]
FirstNonImport(b) == FirstOf({i \in 1..Len(b) : ~IsImport(b[i])})

MissAppend(sheet, meta) ==
  LET sheetIdentifier == GenerateUidIdentifier(meta)
  IN [meta |-> [meta EXCEPT
                  !.body = Append(meta.body, VariableDeclaration(sheetIdentifier, sheet)),
                  !.sheets = (sheet :> sheetIdentifier) @@ meta.sheets,
                  !.uids = meta.uids + 1],
      id |-> sheetIdentifier]

\* hoistSheet on a miss: the declaration goes in before the first statement that is
\* no import, and the identifier is recorded.
HoistMiss(sheet, meta) ==
  LET sheetIdentifier == GenerateUidIdentifier(meta)
      path == FirstNonImport(meta.body)
  IN [meta |-> [meta EXCEPT
                  !.body = InsertAt(meta.body, path, VariableDeclaration(sheetIdentifier, sheet)),
                  !.sheets = (sheet :> sheetIdentifier) @@ meta.sheets,
                  !.uids = meta.uids + 1],
      id |-> sheetIdentifier]

HoistAlways(sheet, meta) == HoistMiss(sheet, meta)

\* hoistSheet(sheet, meta): the referencing identifier and the state left behind.
HoistSheet(sheet, meta) ==
  IF sheet \in DOMAIN meta.sheets
  THEN [meta |-> meta, id |-> meta.sheets[sheet]]
  ELSE HoistMiss(sheet, meta)

RECURSIVE HoistOnlyMisses(_, _)
HoistOnlyMisses(ss, meta) ==
  IF ss = <<>> THEN [meta |-> meta, ids |-> <<>>]
  ELSE LET h == HoistSheet(Head(ss), meta)
           rest == HoistOnlyMisses(Tail(ss), h.meta)
       IN [meta |-> rest.meta,
           ids |-> (IF Head(ss) \in DOMAIN meta.sheets THEN <<>> ELSE <<h.id>>) \o rest.ids]

\* sheets.map((sheet) => hoistSheet(sheet, meta)), left to right
RECURSIVE HoistSheets(_, _)
HoistSheets(ss, meta) ==
  IF ss = <<>> THEN [meta |-> meta, ids |-> <<>>]
  ELSE LET h == HoistSheet(Head(ss), meta)
           rest == HoistSheets(Tail(ss), h.meta)
       IN [meta |-> rest.meta, ids |-> <<h.id>> \o rest.ids]

(***************************************************************************)
(* The style prop.                                                         *)
(***************************************************************************)
\* The nested visitor of styledTemplate run over node: each member access on the
\* identifier `props` whose property is no valid HTML attribute is replaced by the bare
\* property and its name pushed on propsToDestructure unless already there.
RECURSIVE NestedVisit(_, _)
NestedVisit(node, props) ==
  CASE node.type = "MemberExpression" ->
         IF node.object.type = "Identifier" /\ node.object.name = "props"
            /\ ~IsPropValid(node.property.name)
         THEN [node |-> node.property,
               props |-> IF node.property.name \in Range(props) THEN props
                         ELSE Append(props, node.property.name)]
         ELSE [node |-> node, props |-> props]
    [] node.type = "BinaryExpression" ->
         LET l == NestedVisit(node.left, props)
             r == NestedVisit(node.right, l.props)
         IN [node |-> [node EXCEPT !.left = l.node, !.right = r.node], props |-> r.props]
    [] node.type = "ArrowFunctionExpression" ->
         LET b == NestedVisit(node.body, props)
         IN [node |-> [node EXCEPT !.body = b.node], props |-> b.props]
    [] OTHER -> [node |-> node, props |-> props]

\* traverseStyledArrowFunctionExpression(node, nestedVisitor)
TraverseStyledArrowFunctionExpression(node, props) ==
  LET v == NestedVisit(node, props)
  IN [node |-> PickFunctionBody(v.node), props |-> v.props]

\* The traversal of traverseStyledBinaryExpression below node: the first arrow function
\* met (parents before children, left before right) is visited and replaced by its
\* body, and path.stop() ends the traversal there.
RECURSIVE ReplaceFirstArrow(_, _)
ReplaceFirstArrow(node, props) ==
  CASE node.type = "ArrowFunctionExpression" ->
         LET v == TraverseStyledArrowFunctionExpression(node, props)
         IN [node |-> v.node, props |-> v.props, stopped |-> TRUE]
    [] node.type = "BinaryExpression" ->
         LET l == ReplaceFirstArrow(node.left, props)
         IN IF l.stopped
            THEN [node |-> [node EXCEPT !.left = l.node], props |-> l.props, stopped |-> TRUE]
            ELSE LET r == ReplaceFirstArrow(node.right, props)
                 IN [node |-> [node EXCEPT !.right = r.node], props |-> r.props,
                     stopped |-> r.stopped]
    [] OTHER -> [node |-> node, props |-> props, stopped |-> FALSE]

\* traverseStyledBinaryExpression(node, nestedVisitor)
TraverseStyledBinaryExpression(node, props) ==
  LET r == ReplaceFirstArrow(node, props)
  IN [node |-> r.node, props |-> r.props]

\* The transform styledTemplate hands to styledStyleProp.
StyledTransform(node, props) ==
  CASE node.type = "ArrowFunctionExpression" -> TraverseStyledArrowFunctionExpression(node, props)
    [] node.type = "BinaryExpression" -> TraverseStyledBinaryExpression(node, props)
    [] OTHER -> [node |-> node, props |-> props]

\* transform(expression): "styled" names the transform of styledTemplate, "default" the
\* default parameter (expression) => expression.
ApplyTransform(transform, expression, props) ==
  IF transform = "styled" THEN StyledTransform(expression, props)
  ELSE [node |-> expression, props |-> props]

\* variables.map((variable) => t.objectProperty(t.stringLiteral(variable.name),
\* transform(variable.expression))), props threading propsToDestructure through.
RECURSIVE MapVariables(_, _, _)
MapVariables(variables, transform, props) ==
  IF variables = <<>> THEN [properties |-> <<>>, props |-> props]
  ELSE LET tr == ApplyTransform(transform, Head(variables).expression, props)
           rest == MapVariables(Tail(variables), transform, tr.props)
       IN [properties |-> <<ObjectProperty(Head(variables).name, tr.node)>> \o rest.properties,
           props |-> rest.props]

KeepAllVariables(variables, transform, props) == MapVariables(variables, transform, props)

\* buildCssVariablesProp(variables, transform): one object property per variable that is
\* unique by name.
BuildCssVariablesProp(variables, transform, props) ==
  MapVariables(unique(variables), transform, props)

\* styledStyleProp(variables, transform): {...style, <variables>}
StyledStyleProp(variables, transform, props) ==
  LET b == BuildCssVariablesProp(variables, transform, props)
  IN [node |-> ObjectExpression(<<SpreadElement(Identifier("style"))>> \o b.properties),
      props |-> b.props]

\* buildComponentTag({name, type})
BuildComponentTag(tag) ==
  IF tag.type = "InBuiltComponent" THEN StringLiteral(tag.name) ELSE Identifier(tag.name)

ClassNameLiterals(classNames) == [i \in 1..Len(classNames) |-> StringLiteral(classNames[i])]

Ax(values) == CallExpression(Identifier("ax"), <<ArrayExpression(values)>>)

CSWithoutNonce(meta, ids) == [attributes |-> <<>>, children |-> ArrayExpression(ids)]

\* <CS ${nonceAttribute}>{cssNode}</CS> of both templates, with nonceAttribute =
\* meta.state.opts.nonce ? `nonce={${meta.state.opts.nonce}}` : ''. An option that is
\* not set is the empty string here; both are falsy.
CS(meta, ids) ==
  [attributes |-> IF meta.nonce # ""
                  THEN <<JSXAttribute("nonce", JSXExpressionContainer(Identifier(meta.nonce)))>>
                  ELSE <<>>,
   children |-> ArrayExpression(ids)]

(***************************************************************************)
(* The emitters.  Each returns [meta, node]: the state left behind and the *)
(* node that takes the call site's place.                                  *)
(***************************************************************************)
\* The array of className={ax([${classNames.map((c) => `"${c}"`).join(',')}, props.className])}
\* as the template text parses: with no class name the text is `[, props.className]`,
\* an array whose first element is a hole (null in the AST).
StyledClassNameValues(classNames) ==
  (IF Len(classNames) = 0 THEN <<NullValue>> ELSE ClassNameLiterals(classNames))
    \o <<MemberExpression("props", "className")>>

\* styledTemplate(opts, meta), with opts = [classNames, tag, variables, sheets]
StyledTemplate(o, meta) ==
  LET styleProp == IF Len(o.variables) > 0
                   THEN StyledStyleProp(o.variables, "styled", <<>>)
                   ELSE [node |-> Identifier("style"), props |-> <<>>]
      h == HoistSheets(o.sheets, meta)
  IN [meta |-> h.meta,
      node |-> [type |-> "StyledComponent",
                tag |-> BuildComponentTag(o.tag),
                propsToDestructure |-> styleProp.props,
                cs |-> CS(meta, h.ids),
                style |-> styleProp.node,
                className |-> Ax(StyledClassNameValues(o.classNames))]]

\* compiledTemplate(node, sheets, meta)
CompiledTemplate(node, ss, meta) ==
  LET h == HoistSheets(ss, meta)
  IN [meta |-> h.meta,
      node |-> [type |-> "CompiledComponent", cs |-> CS(meta, h.ids), jsxNode |-> node]]

\* buildStyledComponent(tag, cssOutput, meta)
BuildStyledComponent(tag, cssOutput, meta) ==
  LET t == TransformCss(cssOutput.css)
  IN StyledTemplate([classNames |-> t.classNames, tag |-> tag, sheets |-> t.sheets,
                     variables |-> cssOutput.variables], meta)

\* getPropValue(node): the value, and whether it throws instead of returning it
GetPropValue(node) == IF node.type = "JSXExpressionContainer" THEN node.expression ELSE node

GetPropValueNeverThrows(node) == FALSE

GetPropValueThrows(node) == GetPropValue(node).type = "JSXEmptyExpression"

EmptyExpressionError == [type |-> "Error", message |-> "Empty expression not supported."]

\* attributes.find((prop) => t.isJSXAttribute(prop) && prop.name.name === name), as an index
FindAttribute(attributes, name) ==
  FirstOf({i \in 1..Len(attributes) :
             attributes[i].type = "JSXAttribute" /\ attributes[i].name = name})

MergeExistingLast(classNames, classNameExpression) ==
  ClassNameLiterals(classNames) \o <<classNameExpression>>

MergeExistingFirst(classNames, classNameExpression) ==
  <<classNameExpression>> \o ClassNameLiterals(classNames)

\* classNames.map((className) => t.stringLiteral(className)).concat(classNameExpression)
ClassNameValues(classNames, classNameExpression) ==
  MergeExistingLast(classNames, classNameExpression)

\* The first half of buildCompiledComponent: the className attribute.
ClassNameStep(attributes, classNames) ==
  LET i == FindAttribute(attributes, "className")
  IN IF i # 0 /\ attributes[i].value.type # "null"
     THEN [attributes EXCEPT ![i].value =
             JSXExpressionContainer(
               Ax(ClassNameValues(classNames, GetPropValue(attributes[i].value))))]
     ELSE Append(attributes,
                 JSXAttribute("className",
                              JSXExpressionContainer(Ax(ClassNameLiterals(classNames)))))

\* styleProp.value.expression.properties.forEach((prop, index) => ...): every property
\* that is no object method is spliced into dynamicStyleProperties at its own index.
RECURSIVE SpliceStyleProperties(_, _, _)
SpliceStyleProperties(properties, index, dynamicStyleProperties) ==
  IF index >= Len(properties) THEN dynamicStyleProperties
  ELSE LET prop == properties[index + 1]
       IN SpliceStyleProperties(
            properties, index + 1,
            IF prop.type = "ObjectMethod" THEN dynamicStyleProperties
            ELSE Splice0(dynamicStyleProperties, index, prop))

\* The second half of buildCompiledComponent, run when cssOutput.variables.length > 0.
StyleStep(attributes, variables) ==
  LET stylePropIndex == FindAttribute(attributes, "style")
      dynamic == BuildCssVariablesProp(variables, "default", <<>>).properties
      styleProp == attributes[stylePropIndex]
      removed == IF stylePropIndex # 0 THEN RemoveAt(attributes, stylePropIndex) ELSE attributes
      merged ==
        IF stylePropIndex # 0
           /\ styleProp.value.type = "JSXExpressionContainer"
           /\ styleProp.value.expression.type # "JSXEmptyExpression"
        THEN IF styleProp.value.expression.type # "ObjectExpression"
             THEN <<SpreadElement(styleProp.value.expression)>> \o dynamic
             ELSE SpliceStyleProperties(styleProp.value.expression.properties, 0, dynamic)
        ELSE dynamic
  IN Append(removed, JSXAttribute("style", JSXExpressionContainer(ObjectExpression(merged))))

StyleWithoutVariables(node, cssOutput, meta) ==
  LET t == TransformCss(cssOutput.css)
      attrs == node.attributes
      i == FindAttribute(attrs, "className")
  IN IF i # 0 /\ attrs[i].value.type # "null" /\ GetPropValueThrows(attrs[i].value)
     THEN [meta |-> meta, node |-> EmptyExpressionError]
     ELSE CompiledTemplate(
            [node EXCEPT !.attributes =
               StyleStep(ClassNameStep(attrs, t.classNames), cssOutput.variables)],
            t.sheets, meta)

\* buildCompiledComponent(node, cssOutput, meta). A throw leaves meta as it was and
\* puts the error in the node's place.
BuildCompiledComponent(node, cssOutput, meta) ==
  LET t == TransformCss(cssOutput.css)
      attrs == node.attributes
      i == FindAttribute(attrs, "className")
  IN IF i # 0 /\ attrs[i].value.type # "null" /\ GetPropValueThrows(attrs[i].value)
     THEN [meta |-> meta, node |-> EmptyExpressionError]
     ELSE LET a1 == ClassNameStep(attrs, t.classNames)
              a2 == IF Len(cssOutput.variables) > 0 THEN StyleStep(a1, cssOutput.variables)
                    ELSE a1
          IN CompiledTemplate([node EXCEPT !.attributes = a2], t.sheets, meta)

(***************************************************************************)
(* The entry visitor.                                                      *)
(***************************************************************************)
\* state.compiledImports: undefined, or a record whose styled is the local name of
\* `styled` ("" while it is undefined).
NoCompiledImports == [defined |-> FALSE, styled |-> ""]

KeepSheets(old) == old

\* pre(): this.sheets = {}
PreSheets(old) == EmptyMap

IsStyledSpecifier(specifier) ==
  specifier.type = "ImportSpecifier" /\ specifier.imported = "styled"

\* The local name the filter callback leaves in state.compiledImports.styled: the one
\* of the last `styled` specifier, acc when there is none.
RECURSIVE StyledLocalName(_, _)
StyledLocalName(specifiers, acc) ==
  IF specifiers = <<>> THEN acc
  ELSE StyledLocalName(Tail(specifiers),
                       IF IsStyledSpecifier(Head(specifiers)) THEN Head(specifiers).local
                       ELSE acc)

UtilSpecifiers == <<importSpecifier("ax"), importSpecifier("CC"), importSpecifier("CS")>>

PrependUtils(specifiers) ==
  UtilSpecifiers \o SelectSeq(specifiers, LAMBDA sp : ~IsStyledSpecifier(sp))

\* path.node.specifiers.filter(...).concat([ax, CC, CS])
RewriteSpecifiers(specifiers) ==
  SelectSeq(specifiers, LAMBDA sp : ~IsStyledSpecifier(sp)) \o UtilSpecifiers

\* visitor.ImportDeclaration(path, state): the node and state.compiledImports it leaves
VisitImportDeclaration(node, ci) ==
  IF node.source # "@compiled/core" THEN [node |-> node, compiledImports |-> ci]
  ELSE [node |-> [node EXCEPT !.specifiers = RewriteSpecifiers(node.specifiers)],
        compiledImports |-> [defined |-> TRUE, styled |-> StyledLocalName(node.specifiers, "")]]

\* The names bound in the program scope, as the scope was crawled from the parsed module.
ProgramBindings(b) ==
  UNION {IF IsImport(b[i]) THEN {sp.local : sp \in Range(b[i].specifiers)}
         ELSE IF b[i].type = "Statement" /\ b[i].declares # "" THEN {b[i].declares}
         ELSE {}
         : i \in 1..Len(b)}

\* template.ast(`import * as React from 'react'`)
ReactImport == ImportDeclaration("react", <<ImportNamespaceSpecifier("React")>>)

ExitAlways(b, ci, bindings) == <<ReactImport>> \o b

\* visitor.Program.exit(path, state): the body it leaves
ProgramExit(b, ci, bindings) ==
  IF ci.defined /\ "React" \notin bindings THEN <<ReactImport>> \o b ELSE b

\* visitCssPropPath(path, meta) of ./css-prop: an element with a css attribute is
\* replaced by the compiled component built from the CSSOutput of that attribute.
VisitCssPropPath(node, meta) ==
  IF node.hasCss
  THEN BuildCompiledComponent([type |-> "JSXElement", attributes |-> node.attributes],
                              node.cssOutput, meta)
  ELSE [meta |-> meta, node |-> node]

\* visitStyledPath(path, meta) of ./styled: a call or tagged template whose callee is
\* the recorded local name of `styled` is replaced by the styled component.
VisitStyledPath(node, ci, meta) ==
  IF ci.styled # "" /\ node.callee = ci.styled
  THEN BuildStyledComponent(node.tag, node.cssOutput, meta)
  ELSE [meta |-> meta, node |-> node]

Untouched(node, meta) == [meta |-> meta, node |-> node, via |-> ""]

Dispatched(r, via) == [meta |-> r.meta, node |-> r.node, via |-> via]

\* visitor.TaggedTemplateExpression(path, state)
VisitTaggedTemplateExpression(node, ci, meta) ==
  IF ci.styled = "" THEN Untouched(node, meta)
  ELSE Dispatched(VisitStyledPath(node, ci, meta), "visitStyledPath")

CallExpressionUnguarded(node, ci, meta) ==
  Dispatched(VisitStyledPath(node, ci, meta), "visitStyledPath")

\* visitor.CallExpression(path, state)
VisitCallExpression(node, ci, meta) ==
  IF ~ci.defined THEN Untouched(node, meta)
  ELSE Dispatched(VisitStyledPath(node, ci, meta), "visitStyledPath")

\* visitor.JSXOpeningElement(path, state)
VisitJSXOpeningElement(node, ci, meta) ==
  IF ~ci.defined THEN Untouched(node, meta)
  ELSE Dispatched(VisitCssPropPath(node, meta), "visitCssPropPath")

(***************************************************************************)
(* Spec: the modules of one process, compiled one after the other.         *)
(***************************************************************************)
CssOutput(css, variables) == [css |-> css, variables |-> variables]

JSXElement(attributes, hasCss, cssOutput) ==
  [type |-> "JSXElement", attributes |-> attributes, hasCss |-> hasCss, cssOutput |-> cssOutput]

StyledCall(type, callee, tag, cssOutput) ==
  [type |-> type, callee |-> callee, tag |-> tag, cssOutput |-> cssOutput]

Tags == {[name |-> "div", type |-> "InBuiltComponent"], [name |-> "Link", type |-> "UserDefinedComponent"]}
DivTag == [name |-> "div", type |-> "InBuiltComponent"]

\* The css of the call sites the traversal meets: one rule, two rules, one rule twice.
SiteCss == {<<"font-size:12px">>, <<"font-size:24px">>, <<"font-size:24px", "font-size:12px">>,
            <<"font-size:12px", "font-size:12px">>}

TopImports ==
  {ImportDeclaration("@compiled/core", <<>>),
   ImportDeclaration("@compiled/core", <<ImportSpecifier("styled", "styled")>>),
   ImportDeclaration("react", <<ImportDefaultSpecifier("React")>>),
   ImportDeclaration("react", <<ImportSpecifier("useState", "useState")>>)}

TopElements == {Statement("", JSXElement(<<>>, TRUE, CssOutput(css, <<>>))) : css \in SiteCss}

TopCalls ==
  {Statement("", StyledCall("CallExpression", "styled", DivTag, CssOutput(css, <<>>)))
     : css \in SiteCss}
  \cup {Statement("React", StyledCall("CallExpression", "require", DivTag, CssOutput(<<>>, <<>>)))}

TopTagged ==
  {Statement("", StyledCall("TaggedTemplateExpression", "styled", DivTag, CssOutput(css, <<>>)))
     : css \in SiteCss}

Meta(b) == [body |-> b, sheets |-> sheets, uids |-> uids, mod |-> modNo, nonce |-> opts.nonce]

WithVia(stmt, via) == [type |-> "Statement", declares |-> stmt.declares, node |-> stmt.node, via |-> via]

\* The module state after handler result r for the statement that is last in the body.
Land(stmt, r) ==
  /\ body' = [r.meta.body EXCEPT ![Len(r.meta.body)] =
                [type |-> "Statement", declares |-> stmt.declares, node |-> r.node, via |-> r.via]]
  /\ sheets' = r.meta.sheets
  /\ uids' = r.meta.uids

Init ==
  /\ phase = "idle"
  /\ modNo = 0
  /\ orig = <<>>
  /\ body = <<>>
  /\ sheets = EmptyMap
  /\ uids = 0
  /\ compiledImports = NoCompiledImports
  /\ opts = [nonce |-> ""]
  /\ earlier = {}
  /\ site = [type |-> "none"]
  /\ result = [type |-> "none"]

\* A module enters the pass: the host makes its state object and runs pre().
Pre ==
  /\ phase \in {"idle", "done"}
  /\ modNo < MaxModules
  /\ phase' = "visiting"
  /\ modNo' = modNo + 1
  /\ orig' = <<>>
  /\ body' = <<>>
  /\ sheets' = PreSheets(sheets)
  /\ uids' = 0
  /\ compiledImports' = NoCompiledImports
  /\ earlier' = earlier \cup DOMAIN sheets
  /\ UNCHANGED <<opts, site, result>>

\* The traversal reaches an import declaration.
ImportDeclarationStep ==
  /\ phase = "visiting"
  /\ Len(orig) < MaxStmts
  /\ \E node \in TopImports :
       LET r == VisitImportDeclaration(node, compiledImports)
       IN /\ orig' = Append(orig, node)
          /\ body' = Append(body, r.node)
          /\ compiledImports' = r.compiledImports
  /\ UNCHANGED <<phase, modNo, sheets, uids, opts, earlier, site, result>>

\* The traversal reaches a statement holding a JSX element.
JSXOpeningElementStep ==
  /\ phase = "visiting"
  /\ Len(orig) < MaxStmts
  /\ \E stmt \in TopElements :
       /\ orig' = Append(orig, WithVia(stmt, ""))
       /\ Land(stmt, VisitJSXOpeningElement(stmt.node, compiledImports,
                                            Meta(Append(body, WithVia(stmt, "")))))
  /\ UNCHANGED <<phase, modNo, compiledImports, opts, earlier, site, result>>

\* The traversal reaches a statement holding a call expression.
CallExpressionStep ==
  /\ phase = "visiting"
  /\ Len(orig) < MaxStmts
  /\ \E stmt \in TopCalls :
       /\ orig' = Append(orig, WithVia(stmt, ""))
       /\ Land(stmt, VisitCallExpression(stmt.node, compiledImports,
                                         Meta(Append(body, WithVia(stmt, "")))))
  /\ UNCHANGED <<phase, modNo, compiledImports, opts, earlier, site, result>>

\* The traversal reaches a statement holding a tagged template expression.
TaggedTemplateExpressionStep ==
  /\ phase = "visiting"
  /\ Len(orig) < MaxStmts
  /\ \E stmt \in TopTagged :
       /\ orig' = Append(orig, WithVia(stmt, ""))
       /\ Land(stmt, VisitTaggedTemplateExpression(stmt.node, compiledImports,
                                                   Meta(Append(body, WithVia(stmt, "")))))
  /\ UNCHANGED <<phase, modNo, compiledImports, opts, earlier, site, result>>

\* The traversal leaves the program.
ProgramExitStep ==
  /\ phase = "visiting"
  /\ phase' = "done"
  /\ body' = ProgramExit(body, compiledImports, ProgramBindings(orig))
  /\ UNCHANGED <<modNo, orig, sheets, uids, compiledImports, opts, earlier, site, result>>

Next ==
  \/ Pre
  \/ ImportDeclarationStep
  \/ JSXOpeningElementStep
  \/ CallExpressionStep
  \/ TaggedTemplateExpressionStep
  \/ ProgramExitStep

Spec == Init /\ [][Next]_vars

(***************************************************************************)
(* SpecNode: one handler applied to one node.                              *)
(***************************************************************************)
SpecifierPool ==
  {ImportSpecifier("styled", "styled"), ImportSpecifier("styled", "s"),
   ImportSpecifier("ClassNames", "ClassNames"), ImportDefaultSpecifier("core")}

\* Values of an existing className attribute: none, a string, an expression, {}.
ClassNameValuePool ==
  {NullValue, StringLiteral("foo"), JSXExpressionContainer(Identifier("cls")),
   JSXExpressionContainer(JSXEmptyExpression)}

StylePropertyPool ==
  {ObjectProperty("color", StringLiteral("red")), ObjectProperty("margin", Identifier("m")),
   ObjectMethod("toString")}

\* Values of an existing style attribute: none, an identifier, {}, an object literal.
StyleValuePool ==
  {NullValue, JSXExpressionContainer(Identifier("userStyle")),
   JSXExpressionContainer(JSXEmptyExpression)}
  \cup {JSXExpressionContainer(ObjectExpression(ps)) :
          ps \in SeqsUpTo(StylePropertyPool, MaxStyleProps)}

AttributePool ==
  {JSXAttribute("id", StringLiteral("x")), JSXAttribute("title", Identifier("t"))}
  \cup {JSXAttribute("className", v) : v \in ClassNameValuePool}
  \cup {JSXAttribute("style", v) : v \in StyleValuePool}

\* The attribute lists of an element: up to three attributes of different names.
AttributeLists ==
  {as \in SeqsUpTo(AttributePool, 3) :
     \A i, j \in 1..Len(as) : i # j => as[i].name # as[j].name}

Variable(name, expression) == [name |-> name, expression |-> expression]

\* The variables of a css prop: identifiers of the module.
CssPropVariablePool ==
  {Variable("--v1", Identifier("a")), Variable("--v1", Identifier("b")),
   Variable("--v2", Identifier("a"))}

\* The expressions of the variables of a styled component.
StyledExpressionPool ==
  {ArrowFunctionExpression("props", MemberExpression("props", "size")),
   ArrowFunctionExpression("p", MemberExpression("p", "size")),
   ArrowFunctionExpression("props", MemberExpression("props", "href")),
   ArrowFunctionExpression("props", BinaryExpression(MemberExpression("props", "size"),
                                                     MemberExpression("props", "gap"))),
   BinaryExpression(ArrowFunctionExpression("props", MemberExpression("props", "size")),
                    StringLiteral("px")),
   BinaryExpression(ArrowFunctionExpression("props", MemberExpression("props", "size")),
                    ArrowFunctionExpression("props", MemberExpression("props", "gap"))),
   Identifier("color")}

StyledVariablePool ==
  {Variable(name, e) : name \in {"--v1", "--v2"}, e \in StyledExpressionPool}

NodeCss == {<<>>, <<"font-size:12px">>, <<"font-size:24px", "font-size:12px">>,
            <<"font-size:12px", "font-size:12px">>}

\* site is one of the nodes a handler is applied to: an import declaration, an
\* element with a css prop, or a styled call or tagged template.
IsNodeInput(n) ==
  \/ \E source \in {"@compiled/core", "react"}, specifiers \in SeqsUpTo(SpecifierPool, MaxSpecifiers) :
        n = ImportDeclaration(source, specifiers)
  \/ \E as \in AttributeLists, css \in NodeCss, vs \in SeqsUpTo(CssPropVariablePool, MaxVars) :
        n = JSXElement(as, TRUE, CssOutput(css, vs))
  \/ \E type \in {"CallExpression", "TaggedTemplateExpression"}, tag \in Tags,
         css \in NodeCss, vs \in SeqsUpTo(StyledVariablePool, MaxVars) :
        n = StyledCall(type, "styled", tag, CssOutput(css, vs))

NodeStatement(node) == IF node.type = "ImportDeclaration" THEN node
                       ELSE WithVia(Statement("", node), "")

InitNode ==
  /\ phase = "node"
  /\ modNo = 1
  /\ IsNodeInput(site)
  /\ orig = <<NodeStatement(site)>>
  /\ body = orig
  /\ sheets = EmptyMap
  /\ uids = 0
  /\ compiledImports = IF site.type = "ImportDeclaration" THEN NoCompiledImports
                       ELSE [defined |-> TRUE, styled |-> "styled"]
  /\ opts \in {[nonce |-> ""], [nonce |-> "__webpack_nonce__"]}
  /\ earlier = {}
  /\ result = [type |-> "none"]

LandNode(r) ==
  /\ Land(Statement("", site), r)
  /\ result' = r.node
  /\ phase' = "emitted"
  /\ UNCHANGED <<modNo, orig, compiledImports, opts, earlier, site>>

NodeImportDeclaration ==
  /\ phase = "node"
  /\ site.type = "ImportDeclaration"
  /\ LET r == VisitImportDeclaration(site, compiledImports)
     IN /\ result' = r.node
        /\ body' = <<r.node>>
        /\ compiledImports' = r.compiledImports
  /\ phase' = "emitted"
  /\ UNCHANGED <<modNo, orig, sheets, uids, opts, earlier, site>>

NodeJSXOpeningElement ==
  /\ phase = "node"
  /\ site.type = "JSXElement"
  /\ LandNode(VisitJSXOpeningElement(site, compiledImports, Meta(body)))

NodeCallExpression ==
  /\ phase = "node"
  /\ site.type = "CallExpression"
  /\ LandNode(VisitCallExpression(site, compiledImports, Meta(body)))

NodeTaggedTemplateExpression ==
  /\ phase = "node"
  /\ site.type = "TaggedTemplateExpression"
  /\ LandNode(VisitTaggedTemplateExpression(site, compiledImports, Meta(body)))

NextNode ==
  \/ NodeImportDeclaration
  \/ NodeJSXOpeningElement
  \/ NodeCallExpression
  \/ NodeTaggedTemplateExpression

SpecNode == InitNode /\ [][NextNode]_vars

(***************************************************************************)
(* What the claims speak of.                                               *)
(***************************************************************************)
\* Where the hoisted constants stand in a body.
HoistedAt(b) == {i \in 1..Len(b) : b[i].type = "VariableDeclaration"}

IsEmitted(node) == node.type \in {"CompiledComponent", "StyledComponent"}

\* Where the statements stand whose call site an emitter has replaced.
EmittedAt(b) == {i \in 1..Len(b) : b[i].type = "Statement" /\ IsEmitted(b[i].node)}

\* The children of the <CS> of an emitted statement.
RefsOf(stmt) == stmt.node.cs.children.elements

\* The body without what the pass added: statement i of it is orig[i] as rewritten.
Rewritten ==
  LET kept == SelectSeq(body, LAMBDA st : st.type # "VariableDeclaration")
  IN IF Len(kept) > Len(orig) THEN Tail(kept) ELSE kept

\* The sheet strings call site i handed to hoistSheet, in order.
AskedBy(i) == TransformCss(orig[i].node.cssOutput.css).sheets

HasCoreImport(b) == \E i \in 1..Len(b) : IsImport(b[i]) /\ b[i].source = "@compiled/core"

LeadingImports(b) == IF FirstNonImport(b) = 0 THEN Len(b) ELSE FirstNonImport(b) - 1

\* C1: within one module compilation every sheet string a call site has handed to
\* hoistSheet has exactly one hoisted const declaration and one identifier in
\* state.sheets, every call for it (first or later, by a styled or a css-prop site)
\* returned that identifier, and there are as many hoisted constants as distinct
\* sheet strings seen.
C1_OneConstantPerSheet ==
  LET E == EmittedAt(Rewritten)
      Seen == UNION {Range(AskedBy(i)) : i \in E}
      H == HoistedAt(body)
  IN /\ DOMAIN sheets = Seen
     /\ \A s \in Seen : Cardinality({k \in H : body[k].init = s}) = 1
     /\ Cardinality(H) = Cardinality(Seen)
     /\ \A k \in H : body[k].init \in Seen /\ sheets[body[k].init] = body[k].id
     /\ \A k1, k2 \in H : k1 # k2 => body[k1].id # body[k2].id
     /\ \A i \in E : RefsOf(Rewritten[i]) = [j \in 1..Len(AskedBy(i)) |-> sheets[AskedBy(i)[j]]]

\* A css-prop site and a styled site of one module have asked for the same sheet string.
C1_Witness ==
  \E i, j \in EmittedAt(Rewritten) :
    /\ i < j
    /\ Rewritten[i].node.type = "CompiledComponent"
    /\ Rewritten[j].node.type = "StyledComponent"
    /\ Range(AskedBy(i)) \cap Range(AskedBy(j)) # {}

\* C2: the hoisted constants stand in one block right after the leading import
\* declarations, a later-hoisted one above every earlier one, and each above every
\* statement whose call site refers to it.
C2_HoistedBeforeFirstNonImport ==
  LET H == HoistedAt(body)
      L == LeadingImports(body)
  IN /\ H = (L + 1)..(L + Cardinality(H))
     /\ \A i, j \in H : i < j => body[i].id.n > body[j].id.n
     /\ \A k \in EmittedAt(body) :
          \A id \in Range(RefsOf(body[k])) : \E i \in H : body[i].id = id /\ i < k

\* Two constants are hoisted below a leading import, above a statement that is no call
\* site, and a call site refers to both.
C2_Witness ==
  /\ Cardinality(HoistedAt(body)) = 2
  /\ LeadingImports(body) >= 1
  /\ \E k \in EmittedAt(body) : Cardinality(Range(RefsOf(body[k]))) = 2
  /\ \E k \in 1..Len(body) : body[k].type = "Statement" /\ ~IsEmitted(body[k].node)

\* C3: state.sheets is empty when a module's traversal starts, and every identifier a
\* call site of the module being compiled got from hoistSheet was made for this module
\* and is declared in this module's body with the sheet string asked for.
C3_SheetsArePerModule ==
  /\ (phase = "visiting" /\ orig = <<>>) => sheets = EmptyMap
  /\ \A s \in DOMAIN sheets : sheets[s].mod = modNo
  /\ \A i \in EmittedAt(Rewritten) :
       \A j \in 1..Len(AskedBy(i)) :
         /\ RefsOf(Rewritten[i])[j].mod = modNo
         /\ \E k \in HoistedAt(body) :
              body[k].id = RefsOf(Rewritten[i])[j] /\ body[k].init = AskedBy(i)[j]

\* A later module has hoisted a sheet string that an earlier module hoisted too.
C3_Witness ==
  /\ modNo >= 2
  /\ \E k \in HoistedAt(body) : body[k].init \in earlier

\* C4: a module with no import from '@compiled/core' is left as parsed: no node of it is
\* dispatched, no import rewritten, no sheet hoisted, no React import added.
C4_NotOptedInUntouched ==
  ~HasCoreImport(orig) =>
     /\ body = orig
     /\ sheets = EmptyMap
     /\ uids = 0
     /\ ~compiledImports.defined

\* The pass has left a module that holds a css-prop element, a styled call and a styled
\* tagged template, no import from '@compiled/core' and no binding named React.
C4_Witness ==
  /\ phase = "done"
  /\ ~HasCoreImport(orig)
  /\ "React" \notin ProgramBindings(orig)
  /\ \E i, j, k \in 1..Len(orig) :
       /\ orig[i].type = "Statement" /\ orig[i].node.type = "JSXElement"
       /\ orig[j].type = "Statement" /\ orig[j].node.type = "CallExpression"
       /\ orig[j].node.callee = "styled"
       /\ orig[k].type = "Statement" /\ orig[k].node.type = "TaggedTemplateExpression"

\* The parsed module binds the name React at program level.
BindsReact(b) ==
  \E i \in 1..Len(b) :
    \/ IsImport(b[i]) /\ \E sp \in Range(b[i].specifiers) : sp.local = "React"
    \/ b[i].type = "Statement" /\ b[i].declares = "React"

\* C6: leaving the program prepends `import * as React from 'react'` exactly when the
\* module imports from '@compiled/core' and binds no React at program level, and changes
\* nothing else; the body never holds that import twice.
C6_ReactImportAtExit ==
  /\ [](Cardinality({i \in 1..Len(body) : body[i] = ReactImport}) <= 1)
  /\ [][(phase = "visiting" /\ phase' = "done") =>
          body' = IF HasCoreImport(orig) /\ ~BindsReact(orig)
                  THEN <<ReactImport>> \o body ELSE body]_vars

\* The React import has been added to a module that imports only a name from 'react',
\* and that named import is still there.
C6_Witness ==
  /\ phase = "done"
  /\ Len(body) >= 2
  /\ body[1] = ReactImport
  /\ \E i \in 2..Len(body) :
       body[i] = ImportDeclaration("react", <<ImportSpecifier("useState", "useState")>>)


IsStyleAttribute(a) == a.type = "JSXAttribute" /\ a.name = "style"

NonStyle(attributes) == SelectSeq(attributes, LAMBDA a : ~IsStyleAttribute(a))

VariablesOf(node) == node.cssOutput.variables

VariableNames(variables) == {variables[i].name : i \in 1..Len(variables)}

\* Where the first variable of that name stands.
FirstNamed(variables, name) == FirstOf({i \in 1..Len(variables) : variables[i].name = name})

\* The object expression of the style prop an emitter has built.
EmittedStyle(node) ==
  IF node.type = "StyledComponent" THEN node.style
  ELSE node.jsxNode.attributes[FindAttribute(node.jsxNode.attributes, "style")].value.expression

\* C5: visiting an import declaration from '@compiled/core' opts the module in, drops
\* every named specifier importing `styled` and records the local name of the last of
\* them (nothing when there is none), keeps the other specifiers in their order, and
\* appends the named specifiers ax, CC, CS in that order.
C5_ImportRewritten ==
  (phase = "emitted" /\ site.type = "ImportDeclaration" /\ site.source = "@compiled/core") =>
    LET in == site.specifiers
        out == result.specifiers
        S == {i \in 1..Len(in) : in[i].type = "ImportSpecifier" /\ in[i].imported = "styled"}
        K == (1..Len(in)) \ S
        rank(i) == Cardinality({j \in K : j <= i})
        n == Cardinality(K)
    IN /\ compiledImports.defined
       /\ result.source = "@compiled/core"
       /\ Len(out) = n + 3
       /\ \A i \in K : out[rank(i)] = in[i]
       /\ out[n + 1] = ImportSpecifier("ax", "ax")
       /\ out[n + 2] = ImportSpecifier("CC", "CC")
       /\ out[n + 3] = ImportSpecifier("CS", "CS")
       /\ IF S = {} THEN compiledImports.styled = ""
          ELSE \E i \in S : (\A j \in S : j <= i) /\ compiledImports.styled = in[i].local

\* The handler has rewritten `import core, { ClassNames, styled as s } from '@compiled/core'`
\* written with `styled as s` between two specifiers that stay.
C5_Witness ==
  /\ phase = "emitted"
  /\ site = ImportDeclaration("@compiled/core",
                              <<ImportSpecifier("ClassNames", "ClassNames"),
                                ImportSpecifier("styled", "s"), ImportDefaultSpecifier("core")>>)
  /\ compiledImports.styled = "s"

\* The property names node reads off the identifier param.
RECURSIVE AccessesOn(_, _)
AccessesOn(node, param) ==
  CASE node.type = "MemberExpression" ->
         IF node.object.name = param THEN {node.property.name} ELSE {}
    [] node.type = "BinaryExpression" ->
         AccessesOn(node.left, param) \cup AccessesOn(node.right, param)
    [] node.type = "ArrowFunctionExpression" -> AccessesOn(node.body, param)
    [] OTHER -> {}

\* The value the emitted style object gives the variable of that name.
StyleValueOf(node, name) ==
  LET ps == EmittedStyle(node).properties
  IN ps[FirstOf({k \in 1..Len(ps) : ps[k].type = "ObjectProperty" /\ ps[k].key = name})].value

\* C7: in a styled component, every prop name the function expression of a variable
\* reads off its parameter is, when no valid HTML attribute, destructured exactly once
\* and read as a bare identifier in the style object, and, when a valid HTML attribute,
\* not destructured and still read off the parameter.
C7_PropsDestructured ==
  (phase = "emitted" /\ result.type = "StyledComponent") =>
    \A name \in VariableNames(VariablesOf(site)) :
      LET e == VariablesOf(site)[FirstNamed(VariablesOf(site), name)].expression
      IN e.type = "ArrowFunctionExpression" =>
           LET param == e.params[1].name
               value == StyleValueOf(result, name)
           IN \A x \in AccessesOn(e.body, param) :
                IF IsPropValid(x)
                THEN /\ x \notin Range(result.propsToDestructure)
                     /\ x \in AccessesOn(value, param)
                ELSE /\ Cardinality({k \in 1..Len(result.propsToDestructure) :
                                       result.propsToDestructure[k] = x}) = 1
                     /\ x \notin AccessesOn(value, param)

\* C8: when a call site has variables, the emitted style object has exactly one property
\* per distinct variable name, in the order the names first occur, each carrying the
\* expression of the first variable of its name (as the styled transform leaves it, for
\* a styled component).
C8_OnePropertyPerVariable ==
  (phase = "emitted" /\ IsEmitted(result) /\ Len(VariablesOf(site)) > 0) =>
    LET vs == VariablesOf(site)
        P == SelectSeq(EmittedStyle(result).properties,
                       LAMBDA p : p.type = "ObjectProperty" /\ p.key \in VariableNames(vs))
        first(k) == vs[FirstNamed(vs, P[k].key)].expression
    IN /\ Len(P) = Cardinality(VariableNames(vs))
       /\ \A k \in 1..Len(P) :
            P[k].value = IF result.type = "StyledComponent"
                         THEN StyledTransform(first(k), <<>>).node ELSE first(k)
       /\ \A k1, k2 \in 1..Len(P) :
            k1 < k2 => FirstNamed(vs, P[k1].key) < FirstNamed(vs, P[k2].key)

\* A css-prop element whose CSSOutput names --v1 twice, with two expressions, and --v2
\* not at all or once, has been emitted.
C8_Witness ==
  /\ phase = "emitted"
  /\ result.type = "CompiledComponent"
  /\ \E i, j \in 1..Len(VariablesOf(site)) :
       /\ i < j
       /\ VariablesOf(site)[i].name = VariablesOf(site)[j].name
       /\ VariablesOf(site)[i].expression # VariablesOf(site)[j].expression

\* C9: at a css-prop call site, an existing className attribute with a value gets the
\* value ax([generated class names..., its former expression]); without one, or with one
\* written without a value, className={ax([generated class names...])} is appended. The
\* other attributes, style apart, stay as they were.
C9_ClassNameMerged ==
  (phase = "emitted" /\ result.type = "CompiledComponent") =>
    LET A == NonStyle(site.attributes)
        O == NonStyle(result.jsxNode.attributes)
        names == TransformCss(site.cssOutput.css).classNames
        lits == [k \in 1..Len(names) |-> StringLiteral(names[k])]
        c == FindAttribute(A, "className")
    IN IF c # 0 /\ A[c].value.type # "null"
       THEN LET existing == IF A[c].value.type = "JSXExpressionContainer"
                            THEN A[c].value.expression ELSE A[c].value
            IN O = [A EXCEPT ![c].value = JSXExpressionContainer(Ax(lits \o <<existing>>))]
       ELSE O = Append(A, JSXAttribute("className", JSXExpressionContainer(Ax(lits))))

\* An element with className={cls} ahead of another attribute and two generated class
\* names has been emitted.
C9_Witness ==
  /\ phase = "emitted"
  /\ result.type = "CompiledComponent"
  /\ Len(TransformCss(site.cssOutput.css).classNames) = 2
  /\ Len(site.attributes) >= 2
  /\ site.attributes[1] = JSXAttribute("className", JSXExpressionContainer(Identifier("cls")))

\* C10: at a css-prop call site with variables and an existing style attribute holding an
\* expression, the new style object starts with the properties of the original object
\* that are no methods, in their order (or with the spread of the expression when it is
\* no object literal), and the variable assignments all come after them.
C10_StyleMergedAhead ==
  LET s == FindAttribute(site.attributes, "style")
  IN (/\ phase = "emitted" /\ result.type = "CompiledComponent"
      /\ Len(VariablesOf(site)) > 0
      /\ s # 0
      /\ site.attributes[s].value.type = "JSXExpressionContainer"
      /\ site.attributes[s].value.expression.type # "JSXEmptyExpression") =>
       LET e == site.attributes[s].value.expression
           out == EmittedStyle(result).properties
           ahead == IF e.type = "ObjectExpression"
                    THEN SelectSeq(e.properties, LAMBDA p : p.type # "ObjectMethod")
                    ELSE <<SpreadElement(e)>>
       IN /\ Len(out) >= Len(ahead)
          /\ SubSeq(out, 1, Len(ahead)) = ahead
          /\ \A k \in (Len(ahead) + 1)..Len(out) :
               out[k].type = "ObjectProperty" /\ out[k].key \in VariableNames(VariablesOf(site))

\* The attributes that are neither className nor style.
OtherAttributes(attributes) ==
  SelectSeq(attributes, LAMBDA a : ~(a.type = "JSXAttribute" /\ a.name \in {"className", "style"}))

NonClassName(attributes) ==
  SelectSeq(attributes, LAMBDA a : ~(a.type = "JSXAttribute" /\ a.name = "className"))

\* C11: buildCompiledComponent leaves the attributes other than className and style as
\* they were, in their order, and, when the CSSOutput has no variable, leaves the style
\* attribute as it was and where it was among them, and adds none.
C11_OtherAttributesKept ==
  (phase = "emitted" /\ result.type = "CompiledComponent") =>
    /\ OtherAttributes(result.jsxNode.attributes) = OtherAttributes(site.attributes)
    /\ Len(VariablesOf(site)) = 0 =>
         NonClassName(result.jsxNode.attributes) = NonClassName(site.attributes)

\* An element written with id, style and title in that order, and variables, has been
\* emitted: the style attribute has moved behind title, id and title stand as before.
C11_Witness ==
  /\ phase = "emitted"
  /\ result.type = "CompiledComponent"
  /\ Len(VariablesOf(site)) > 0
  /\ Len(site.attributes) = 3
  /\ site.attributes[1].name = "id"
  /\ site.attributes[2].name = "style"
  /\ site.attributes[3].name = "title"
  /\ result.jsxNode.attributes[2].name = "title"

EmptyContainer == JSXExpressionContainer(JSXEmptyExpression)

\* The element is written with className={}.
EmptyClassName(node) ==
  LET c == FindAttribute(node.attributes, "className")
  IN c # 0 /\ node.attributes[c].value = EmptyContainer

\* The element is written with style={} and its CSSOutput has variables, so that the
\* emitter looks at the style attribute.
EmptyStyle(node) ==
  LET s == FindAttribute(node.attributes, "style")
  IN s # 0 /\ node.attributes[s].value = EmptyContainer /\ Len(VariablesOf(node)) > 0

\* The last value of the ax([...]) in the className attribute of the emitted element.
MergedClassName(node) ==
  LET as == node.jsxNode.attributes
      values == as[FindAttribute(as, "className")].value.expression.arguments[1].elements
  IN values[Len(values)]

\* For a className with a value that is no empty expression, the expression merged into
\* ax([...]) is the inner expression of the container, or the value itself.
ClassNameValueRead ==
  LET c == FindAttribute(site.attributes, "className")
  IN (c # 0 /\ site.attributes[c].value.type # "null" /\ ~EmptyClassName(site)) =>
       /\ result.type = "CompiledComponent"
       /\ MergedClassName(result) =
            IF site.attributes[c].value.type = "JSXExpressionContainer"
            THEN site.attributes[c].value.expression ELSE site.attributes[c].value

\* C12 as claimed: an empty expression as the existing className value or as the existing
\* style value raises 'Empty expression not supported.'; any other className value is
\* read as the inner expression or the value itself.
C12_EmptyExpressionRaises ==
  (phase = "emitted" /\ site.type = "JSXElement") =>
    /\ (EmptyClassName(site) \/ EmptyStyle(site)) => result = EmptyExpressionError
    /\ ClassNameValueRead

\* C12 as the code has it: className={} raises the error and nothing is hoisted or
\* emitted, and nothing else raises it; style={} raises nothing: with variables the
\* new style object holds the variable assignments alone.
C12_EmptyClassNameRaises ==
  (phase = "emitted" /\ site.type = "JSXElement") =>
    /\ EmptyClassName(site) <=> result = EmptyExpressionError
    /\ EmptyClassName(site) => sheets = EmptyMap /\ uids = 0
    /\ ClassNameValueRead
    /\ (EmptyStyle(site) /\ ~EmptyClassName(site)) =>
         /\ result.type = "CompiledComponent"
         /\ EmittedStyle(result).properties =
              BuildCssVariablesProp(VariablesOf(site), "default", <<>>).properties

\* An element written with style={} and className="foo", with variables, has been
\* emitted as a compiled component.
C12_Witness ==
  /\ phase = "emitted"
  /\ site.type = "JSXElement"
  /\ EmptyStyle(site)
  /\ FindAttribute(site.attributes, "className") # 0
  /\ site.attributes[FindAttribute(site.attributes, "className")].value = StringLiteral("foo")
  /\ result.type = "CompiledComponent"

\* C13: with opts.nonce set, the <CS> of every emitted component, styled or css prop,
\* has the one attribute nonce={<the option's value as an identifier>}; with opts.nonce
\* not set, the <CS> has no attribute.
C13_NonceOnEveryCS ==
  (phase = "emitted" /\ IsEmitted(result)) =>
    IF opts.nonce # ""
    THEN /\ Len(result.cs.attributes) = 1
         /\ result.cs.attributes[1].name = "nonce"
         /\ result.cs.attributes[1].value = JSXExpressionContainer(Identifier(opts.nonce))
    ELSE \A k \in 1..Len(result.cs.attributes) : result.cs.attributes[k].name # "nonce"

\* A styled component with two sheets has been emitted under the option
\* nonce: "__webpack_nonce__".
C13_Witness ==
  /\ phase = "emitted"
  /\ result.type = "StyledComponent"
  /\ opts.nonce = "__webpack_nonce__"
  /\ Len(result.cs.children.elements) = 2

\* C14: the children of the <CS> of every call site are one identifier per sheet string
\* the transformer returned for the site, in the transformer's order, each the identifier
\* of the constant that holds that sheet string, whether this site or an earlier one
\* hoisted it; two rules for one property in one CSSOutput give two children.
C14_OneChildPerSheet ==
  \A i \in EmittedAt(Rewritten) :
    LET asked == AskedBy(i)
        refs == RefsOf(Rewritten[i])
    IN /\ Len(refs) = Len(asked)
       /\ \A j \in 1..Len(asked) :
            \E k \in HoistedAt(body) : body[k].id = refs[j] /\ body[k].init = asked[j]

\* A call site with two rules for font-size stands behind a call site that has hoisted
\* the second of them, and refers to two different constants.
C14_Witness ==
  \E i, j \in EmittedAt(Rewritten) :
    /\ i < j
    /\ orig[j].node.cssOutput.css = <<"font-size:24px", "font-size:12px">>
    /\ orig[i].node.cssOutput.css = <<"font-size:12px">>
    /\ Len(RefsOf(Rewritten[j])) = 2
    /\ RefsOf(Rewritten[j])[1] # RefsOf(Rewritten[j])[2]
    /\ RefsOf(Rewritten[j])[2] = RefsOf(Rewritten[i])[1]

\* node holds an arrow function.
RECURSIVE HasArrow(_)
HasArrow(node) ==
  CASE node.type = "ArrowFunctionExpression" -> TRUE
    [] node.type = "BinaryExpression" -> HasArrow(node.left) \/ HasArrow(node.right)
    [] OTHER -> FALSE

\* C15: in a styled component, the value the style object gives a variable whose
\* expression is a binary expression holds no arrow function.
C15_EveryArrowReplaced ==
  (phase = "emitted" /\ result.type = "StyledComponent") =>
    \A name \in VariableNames(VariablesOf(site)) :
      LET e == VariablesOf(site)[FirstNamed(VariablesOf(site), name)].expression
      IN e.type = "BinaryExpression" => ~HasArrow(StyleValueOf(result, name))

\* Statement i of the parsed module holds a JSX element or a call expression.
IsCallSite(i) ==
  orig[i].type = "Statement" /\ orig[i].node.type \in {"JSXElement", "CallExpression"}

\* C16: when the pass has left a module that imports from '@compiled/core', every JSX
\* element and every call expression of it has been dispatched to visitCssPropPath or
\* visitStyledPath, those standing ahead of the import declaration too.
C16_DispatchedWhateverOrder ==
  (phase = "done" /\ HasCoreImport(orig)) =>
    \A i \in 1..Len(orig) : IsCallSite(i) => Rewritten[i].via # ""

\* Statement i of the parsed module is an import from '@compiled/core' naming `styled`.
ImportsStyled(i) ==
  /\ IsImport(orig[i]) /\ orig[i].source = "@compiled/core"
  /\ \E sp \in Range(orig[i].specifiers) : IsStyledSpecifier(sp)

\* C17: from the import declaration that names `styled` on, for the rest of the module's
\* compilation, a local name of `styled` is recorded in compiledImports, and every tagged
\* template expression visited behind that import has been dispatched to visitStyledPath.
C17_StyledStaysRecorded ==
  phase \in {"visiting", "done"} =>
    \A i \in 1..Len(orig) :
      ImportsStyled(i) =>
        /\ compiledImports.styled # ""
        /\ \A j \in (i + 1)..Len(orig) :
             (orig[j].type = "Statement" /\ orig[j].node.type = "TaggedTemplateExpression")
               => Rewritten[j].via = "visitStyledPath"

\* How many className attributes the attribute list holds.
ClassNameCount(attributes) ==
  Cardinality({k \in 1..Len(attributes) :
                 attributes[k].type = "JSXAttribute" /\ attributes[k].name = "className"})

\* C18: an element written with at most one className attribute, whatever its value,
\* comes out of buildCompiledComponent with exactly one className attribute.
C18_OneClassNameAttribute ==
  (phase = "emitted" /\ result.type = "CompiledComponent") =>
    (ClassNameCount(site.attributes) <= 1 => ClassNameCount(result.jsxNode.attributes) = 1)

====
